---- MODULE Spec2Model ----
(***************************************************************************)
(* A model of morley.py: the draggable nodes (Node), the scene of three    *)
(* nodes (Triangle), the host loop (App / main) and the trisector geometry *)
(* (Triangle.draw_trisectors, get_intersection).                           *)
(***************************************************************************)
EXTENDS Integers, Sequences, FiniteSets, TLC

(***************************************************************************)
(* Bounds and input sets                                                   *)
(***************************************************************************)

\* The most events one call of pygame.event.get() returns in the model.
MaxPending == 1

NODE_SIZE == 16

\* Optional values: None is the empty sequence, a present value v is <<v>>.
None == <<>>

Some(v) == <<v>>

Point(x, y) == [x |-> x, y |-> y]

\* Pointer positions pygame.mouse.get_pos() returns in the model: the
\* top-left corner of node 0's initial hit-box and a point 15 right of and
\* 7 below it (inside the same box).
MousePos == {Point(300, 100), Point(315, 107)}

\* Positions of MOUSEBUTTONDOWN events: the mouse positions, the corners of
\* the initial boxes of nodes 1 and 2, and two points just outside the
\* right and the bottom edge of node 0's initial box.
DownPos == MousePos \cup {Point(700, 400), Point(100, 400),
                          Point(316, 100), Point(300, 116)}

\* Positions of MOUSEBUTTONUP events: one inside and one outside a box.
UpPos == {Point(300, 100), Point(316, 100)}

Event(type, pos) == [type |-> type, pos |-> pos]

Events ==
    {Event("MOUSEBUTTONDOWN", Some(p)) : p \in DownPos}
    \cup {Event("MOUSEBUTTONUP", Some(p)) : p \in UpPos}
    \cup {Event("MOUSEMOTION", Some(Point(300, 100))),
          Event("KEYDOWN", None),
          Event("QUIT", None)}

(***************************************************************************)
(* Point (lines 28-47)                                                     *)
(***************************************************************************)

from_tuple(t) == Point(t.x, t.y)

PointAdd(p, q) == Point(p.x + q.x, p.y + q.y)

PointNeg(p) == Point(-p.x, -p.y)

PointSub(p, q) == PointAdd(p, PointNeg(q))

(***************************************************************************)
(* Node (lines 50-94)                                                      *)
(***************************************************************************)

Node(x, y, size) ==
    [top_left |-> Point(x, y), size |-> size, grab_offset |-> None]

\* pygame.Rect([x, y, size, size])
get_rect(node) ==
    [x |-> node.top_left.x, y |-> node.top_left.y,
     w |-> node.size, h |-> node.size]

\* Mutant of collidepoint: the right and bottom edges count as inside.
collidepoint_Closed(rect, pos) ==
    /\ rect.x <= pos.x /\ pos.x <= rect.x + rect.w
    /\ rect.y <= pos.y /\ pos.y <= rect.y + rect.h

\* pygame.Rect.collidepoint: left and top edges inside, right and bottom
\* edges outside.
collidepoint(rect, pos) ==
    /\ rect.x <= pos.x /\ pos.x < rect.x + rect.w
    /\ rect.y <= pos.y /\ pos.y < rect.y + rect.h

\* Mutant of NodeHandleEvent: the offset is taken the other way round.
NodeHandleEvent_OffsetReversed(node, event) ==
    IF event.type = "MOUSEBUTTONDOWN"
    THEN IF collidepoint(get_rect(node), event.pos[1])
         THEN [node |-> [node EXCEPT !.grab_offset =
                            Some(PointSub(node.top_left,
                                          from_tuple(event.pos[1])))],
               ret |-> TRUE]
         ELSE [node |-> node, ret |-> FALSE]
    ELSE IF event.type = "MOUSEBUTTONUP"
    THEN [node |-> [node EXCEPT !.grab_offset = None], ret |-> FALSE]
    ELSE [node |-> node, ret |-> FALSE]

\* Mutant of NodeHandleEvent: a pointer-up releases the node only when it
\* lies inside the node's box.
NodeHandleEvent_UpOnlyInside(node, event) ==
    IF event.type = "MOUSEBUTTONDOWN"
    THEN IF collidepoint(get_rect(node), event.pos[1])
         THEN [node |-> [node EXCEPT !.grab_offset =
                            Some(PointSub(from_tuple(event.pos[1]),
                                          node.top_left))],
               ret |-> TRUE]
         ELSE [node |-> node, ret |-> FALSE]
    ELSE IF event.type = "MOUSEBUTTONUP"
    THEN IF collidepoint(get_rect(node), event.pos[1])
         THEN [node |-> [node EXCEPT !.grab_offset = None], ret |-> FALSE]
         ELSE [node |-> node, ret |-> FALSE]
    ELSE [node |-> node, ret |-> FALSE]

\* Mutant of NodeHandleEvent: a pointer-up returns True.
NodeHandleEvent_UpConsumes(node, event) ==
    IF event.type = "MOUSEBUTTONDOWN"
    THEN IF collidepoint(get_rect(node), event.pos[1])
         THEN [node |-> [node EXCEPT !.grab_offset =
                            Some(PointSub(from_tuple(event.pos[1]),
                                          node.top_left))],
               ret |-> TRUE]
         ELSE [node |-> node, ret |-> FALSE]
    ELSE IF event.type = "MOUSEBUTTONUP"
    THEN [node |-> [node EXCEPT !.grab_offset = None], ret |-> TRUE]
    ELSE [node |-> node, ret |-> FALSE]

\* Node.handle_event: the node after the call and the value returned.
NodeHandleEvent(node, event) ==
    IF event.type = "MOUSEBUTTONDOWN"
    THEN IF collidepoint(get_rect(node), event.pos[1])
         THEN [node |-> [node EXCEPT !.grab_offset =
                            Some(PointSub(from_tuple(event.pos[1]),
                                          node.top_left))],
               ret |-> TRUE]
         ELSE [node |-> node, ret |-> FALSE]
    ELSE IF event.type = "MOUSEBUTTONUP"
    THEN [node |-> [node EXCEPT !.grab_offset = None], ret |-> FALSE]
    ELSE [node |-> node, ret |-> FALSE]

\* Mutant of NodeUpdate: the offset is added to the pointer position.
NodeUpdate_AddsOffset(node, mouse_pos) ==
    IF node.grab_offset # None
    THEN [node EXCEPT !.top_left =
             PointAdd(from_tuple(mouse_pos), node.grab_offset[1])]
    ELSE node

\* Mutant of NodeUpdate: a node that is not grabbed follows the pointer too.
NodeUpdate_MovesFree(node, mouse_pos) ==
    IF node.grab_offset # None
    THEN [node EXCEPT !.top_left =
             PointSub(from_tuple(mouse_pos), node.grab_offset[1])]
    ELSE [node EXCEPT !.top_left = from_tuple(mouse_pos)]

\* Node.update with the position pygame.mouse.get_pos() returns.
NodeUpdate(node, mouse_pos) ==
    IF node.grab_offset # None
    THEN [node EXCEPT !.top_left =
             PointSub(from_tuple(mouse_pos), node.grab_offset[1])]
    ELSE node

(***************************************************************************)
(* Triangle: event dispatch and update (lines 97-113)                      *)
(***************************************************************************)

TriangleInit == <<Node(300, 100, NODE_SIZE),
                  Node(700, 400, NODE_SIZE),
                  Node(100, 400, NODE_SIZE)>>

\* Mutant of TriangleHandleFrom: the loop does not break at a node that
\* consumed the event.
RECURSIVE TriangleHandleFrom_NoBreak(_, _, _, _)
TriangleHandleFrom_NoBreak(ns, event, i, rets) ==
    IF i > Len(ns)
    THEN [nodes |-> ns, rets |-> rets]
    ELSE LET r == NodeHandleEvent(ns[i], event)
         IN TriangleHandleFrom_NoBreak([ns EXCEPT ![i] = r.node], event,
                                       i + 1, Append(rets, r.ret))

\* Triangle.handle_event from node i on: the nodes after the loop and the
\* values the called nodes returned, in call order (the loop breaks at the
\* first TRUE, so rets is shorter than the node list when a node consumed).
RECURSIVE TriangleHandleFrom(_, _, _, _)
TriangleHandleFrom(ns, event, i, rets) ==
    IF i > Len(ns)
    THEN [nodes |-> ns, rets |-> rets]
    ELSE LET r == NodeHandleEvent(ns[i], event)
             ns2 == [ns EXCEPT ![i] = r.node]
         IN IF r.ret
            THEN [nodes |-> ns2, rets |-> Append(rets, TRUE)]
            ELSE TriangleHandleFrom(ns2, event, i + 1, Append(rets, FALSE))

TriangleHandleEvent(ns, event) == TriangleHandleFrom(ns, event, 1, <<>>)

TriangleUpdate(ns, mouse_pos) ==
    [i \in DOMAIN ns |-> NodeUpdate(ns[i], mouse_pos)]

(***************************************************************************)
(* Python floats: IEEE 754 doubles, with the exact arithmetic of the       *)
(* operations draw_trisectors uses                                         *)
(***************************************************************************)

\* A double as sign, mantissa and exponent, written as float.hex() writes
\* it: 0x1.921fb54442d18p+1 is Float(1, \H1921fb5, \H4442d18, 1), the
\* first seven and the last seven hexadecimal digits of the mantissa.
Float(s, hi, lo, e) == [s |-> s, hi |-> hi, lo |-> lo, e |-> e]

FZero == Float(1, 0, 0, 0)

FIsZero(a) == a.hi = 0 /\ a.lo = 0

FNeg(a) == IF FIsZero(a) THEN a ELSE [a EXCEPT !.s = -a.s]

FAbs(a) == [a EXCEPT !.s = 1]

\* Naturals of any size: base-16384 digits, least significant first.
BigLimb(N, i) == IF i <= Len(N) THEN N[i] ELSE 0

RECURSIVE BigTrim(_)
BigTrim(N) ==
    IF N # <<>> /\ N[Len(N)] = 0
    THEN BigTrim(SubSeq(N, 1, Len(N) - 1))
    ELSE N

BigZeros(n) == [i \in 1..n |-> 0]

RECURSIVE BigAddFrom(_, _, _, _)
BigAddFrom(A, B, i, carry) ==
    IF i > Len(A) /\ i > Len(B)
    THEN IF carry = 0 THEN <<>> ELSE <<carry>>
    ELSE LET s == BigLimb(A, i) + BigLimb(B, i) + carry
         IN <<s % 16384>> \o BigAddFrom(A, B, i + 1, s \div 16384)

BigAdd(A, B) == BigAddFrom(A, B, 1, 0)

\* A - B for A >= B
RECURSIVE BigSubFrom(_, _, _, _)
BigSubFrom(A, B, i, borrow) ==
    IF i > Len(A)
    THEN <<>>
    ELSE LET d == BigLimb(A, i) - BigLimb(B, i) - borrow
         IN IF d < 0
            THEN <<d + 16384>> \o BigSubFrom(A, B, i + 1, 1)
            ELSE <<d>> \o BigSubFrom(A, B, i + 1, 0)

BigSub(A, B) == BigTrim(BigSubFrom(A, B, 1, 0))

\* -1, 0 or 1 as A < B, A = B or A > B, comparing from digit i down.
RECURSIVE BigCmpFrom(_, _, _)
BigCmpFrom(A, B, i) ==
    IF i = 0 THEN 0
    ELSE IF BigLimb(A, i) < BigLimb(B, i) THEN -1
    ELSE IF BigLimb(A, i) > BigLimb(B, i) THEN 1
    ELSE BigCmpFrom(A, B, i - 1)

BigCmp(A, B) == BigCmpFrom(A, B, IF Len(A) > Len(B) THEN Len(A) ELSE Len(B))

RECURSIVE BigMulSmallFrom(_, _, _, _)
BigMulSmallFrom(N, k, i, carry) ==
    IF i > Len(N)
    THEN IF carry = 0 THEN <<>> ELSE <<carry>>
    ELSE LET p == N[i] * k + carry
         IN <<p % 16384>> \o BigMulSmallFrom(N, k, i + 1, p \div 16384)

\* N * k for k < 16384
BigMulSmall(N, k) == BigMulSmallFrom(N, k, 1, 0)

RECURSIVE BigMulFrom(_, _, _)
BigMulFrom(A, B, i) ==
    IF i > Len(A)
    THEN <<>>
    ELSE BigAdd(BigZeros(i - 1) \o BigMulSmall(B, A[i]),
                BigMulFrom(A, B, i + 1))

BigMul(A, B) == BigTrim(BigMulFrom(A, B, 1))

RECURSIVE IntBitLen(_)
IntBitLen(n) == IF n = 0 THEN 0 ELSE 1 + IntBitLen(n \div 2)

BigBitLen(N) ==
    LET T == BigTrim(N)
    IN IF T = <<>> THEN 0 ELSE 14 * (Len(T) - 1) + IntBitLen(T[Len(T)])

BigShiftLeft(N, k) == BigZeros(k \div 14) \o BigMulSmall(N, 2 ^ (k % 14))

\* N shifted right by k bits, and whether no set bit was shifted out.
BigShiftRight(N, k) ==
    LET a == k \div 14
        b == k % 14
        R == SubSeq(N, a + 1, Len(N))
    IN [q |-> BigTrim([i \in 1..Len(R) |->
                  (R[i] \div 2 ^ b) + (BigLimb(R, i + 1) % 2 ^ b) * 2 ^ (14 - b)]),
        exact |-> /\ \A i \in 1..a : BigLimb(N, i) = 0
                  /\ BigLimb(R, 1) % 2 ^ b = 0]

FMant(a) ==
    BigTrim(<<a.lo % 16384, a.lo \div 16384, a.hi % 16384, a.hi \div 16384>>)

\* The double s * M * 2^(e - 52) for a mantissa M of exactly 53 bits.
FPack(s, M, e) ==
    Float(s, BigLimb(M, 3) + BigLimb(M, 4) * 16384,
             BigLimb(M, 1) + BigLimb(M, 2) * 16384, e)

\* s * N * 2^e rounded to the nearest double, ties to even (IEEE 754
\* round-to-nearest, the rounding of every Python float operation).
FRound(s, N, e) ==
    LET L == BigBitLen(N)
    IN IF L = 0 THEN FZero
       ELSE IF L <= 53
       THEN FPack(s, BigShiftLeft(N, 53 - L), e + L - 1)
       ELSE LET t == BigShiftRight(N, L - 54)
                guard == BigLimb(t.q, 1) % 2
                q == BigShiftRight(t.q, 1).q
                up == guard = 1 /\ (~t.exact \/ BigLimb(q, 1) % 2 = 1)
                r == IF up THEN BigAdd(q, <<1>>) ELSE q
            IN IF BigBitLen(r) = 54
               THEN FPack(s, BigShiftRight(r, 1).q, e + L)
               ELSE FPack(s, r, e + L - 1)

\* a * b
FMul(a, b) ==
    IF FIsZero(a) \/ FIsZero(b)
    THEN FZero
    ELSE FRound(a.s * b.s, BigMul(FMant(a), FMant(b)), (a.e - 52) + (b.e - 52))

\* a + b
FAdd(a, b) ==
    IF FIsZero(a) THEN b
    ELSE IF FIsZero(b) THEN a
    ELSE LET e == IF a.e < b.e THEN a.e ELSE b.e
             A == BigShiftLeft(FMant(a), a.e - e)
             B == BigShiftLeft(FMant(b), b.e - e)
             c == BigCmp(A, B)
         IN IF a.s = b.s THEN FRound(a.s, BigAdd(A, B), e - 52)
            ELSE IF c = 0 THEN FZero
            ELSE IF c > 0 THEN FRound(a.s, BigSub(A, B), e - 52)
            ELSE FRound(b.s, BigSub(B, A), e - 52)

\* a < b
FLess(a, b) ==
    IF FIsZero(a) THEN ~FIsZero(b) /\ b.s = 1
    ELSE IF FIsZero(b) THEN a.s = -1
    ELSE IF a.s # b.s THEN a.s = -1
    ELSE LET c == IF a.e # b.e THEN (IF a.e < b.e THEN -1 ELSE 1)
                  ELSE BigCmp(FMant(a), FMant(b))
         IN IF a.s = 1 THEN c < 0 ELSE c > 0

\* math.pi, 2 / 3, 1 / 3 and the integer 2 as doubles
pi == Float(1, \H1921fb5, \H4442d18, 1)

TwoThirds == Float(1, \H1555555, \H5555555, -1)

OneThird == Float(1, \H1555555, \H5555555, -2)

FTwo == Float(1, \H1000000, 0, 1)

\* math.atan2(y, x) for the differences y, x of the centers the model's
\* nodes can have, as the C library computes it (IEEE 754 doubles).
atan2Table == {
    <<-307, -415, Float(-1, \H140994a, \H46c3d13, 1)>>,
    <<-307, 185, Float(-1, \H1074959, \H1d6986d, 0)>>,
    <<-300, -400, Float(-1, \H13fc176, \Hb7a8560, 1)>>,
    <<-300, 200, Float(-1, \H1f730bd, \H281f69b, -1)>>,
    <<-293, -385, Float(-1, \H13edb2f, \H16dd72f, 1)>>,
    <<-293, 215, Float(-1, \H1e020fb, \H6dff110, -1)>>,
    <<-14, -30, Float(-1, \H15a3c4f, \H2e49eb5, 1)>>,
    <<-7, -15, Float(-1, \H15a3c4f, \H2e49eb5, 1)>>,
    <<0, -600, Float(1, \H1921fb5, \H4442d18, 1)>>,
    <<0, 0, Float(1, 0, 0, 0)>>,
    <<0, 600, Float(1, 0, 0, 0)>>,
    <<7, 15, Float(1, \H1bf1b30, \Hafc731b, -2)>>,
    <<14, 30, Float(1, \H1bf1b30, \Hafc731b, -2)>>,
    <<293, -215, Float(1, \H11a1776, \H68c30d4, 1)>>,
    <<293, 385, Float(1, \H14d1218, \Hb5957a7, -1)>>,
    <<300, -200, Float(1, \H1145385, \Hfa3af71, 1)>>,
    <<300, 400, Float(1, \H14978fa, \H3269ee1, -1)>>,
    <<307, -185, Float(1, \H10e7b08, \Hb58e0e2, 1)>>,
    <<307, 415, Float(1, \H14619ab, \Hf5fc016, -1)>>
}

\* math.tan(a) for the trisector bearings a that arise from those centers.
tanTable == {
    <<Float(-1, \H15a3c4f, \H2e49eb5, 1), Float(1, \H1dddddd, \Hddddddd, -2)>>,
    <<Float(-1, \H140994a, \H46c3d13, 1), Float(1, \H17ac1b2, \H4652a8e, -1)>>,
    <<Float(-1, \H1405159, \H170ffd7, 1), Float(1, \H17c7fab, \H5dfebf4, -1)>>,
    <<Float(-1, \H1400967, \He75c29b, 1), Float(1, \H17e3f19, \Ha0d0a26, -1)>>,
    <<Float(-1, \H1400496, \H8c21b1c, 1), Float(1, \H17e5d1d, \Ha99e0be, -1)>>,
    <<Float(-1, \H13fc176, \Hb7a8560, 1), Float(1, \H1800000, \H0000000, -1)>>,
    <<Float(-1, \H13f74b4, \H2cba0a4, 1), Float(1, \H181e098, \H45911f7, -1)>>,
    <<Float(-1, \H13f6fe2, \Hd17f925, 1), Float(1, \H181fed0, \Hce6de88, -1)>>,
    <<Float(-1, \H13f27f1, \Ha1cbbea, 1), Float(1, \H183c2e3, \Hbc5c7eb, -1)>>,
    <<Float(-1, \H13edb2f, \H16dd72e, 1), Float(1, \H185a6e6, \H1149cf0, -1)>>,
    <<Float(-1, \H1cda5be, \He8628f1, 0), Float(1, \H10e4622, \Hf5cc5cc, 2)>>,
    <<Float(-1, \H1ab770d, \Hb3afc19, 0), Float(1, \H1423628, \H3e30942, 3)>>,
    <<Float(-1, \H1aa5748, \Hf4e072a, 0), Float(1, \H1514385, \Ha5be148, 3)>>,
    <<Float(-1, \H1a9243e, \Hc92743e, 0), Float(1, \H162f0a8, \Hb47c40d, 3)>>,
    <<Float(-1, \H1a8637a, \Hd9bca04, 0), Float(1, \H16f020a, \H2bdbf39, 3)>>,
    <<Float(-1, \H1074959, \H1d6986d, 0), Float(-1, \H1a8d255, \Hcb6a8d1, 0)>>,
    <<Float(-1, \H10363b0, \H44f640d, 0), Float(-1, \H19a8d50, \Hd16a0c6, 0)>>,
    <<Float(-1, \H1ff1775, \H4be1b96, -1), Float(-1, \H18d2514, \Hdea2c5c, 0)>>,
    <<Float(-1, \H1fefc0e, \Hd905f5a, -1), Float(-1, \H18cf66c, \Hc28f30b, 0)>>,
    <<Float(-1, \H1f730bd, \H281f69b, -1), Float(-1, \H1800000, \H0000000, 0)>>,
    <<Float(-1, \H1ef9c38, \H5cf0652, -1), Float(-1, \H173f2f1, \H67d6393, 0)>>,
    <<Float(-1, \H1ef80d1, \Hea14a17, -1), Float(-1, \H173c855, \Hc460151, 0)>>,
    <<Float(-1, \H1e7d0e6, \Hac09d93, -1), Float(-1, \H1681629, \He9c4b2e, 0)>>,
    <<Float(-1, \H1e020fb, \H6dff10f, -1), Float(-1, \H15cdfd9, \He5cdfd9, 0)>>,
    <<Float(-1, \H1cda5be, \He8628f1, -1), Float(-1, \H143b30b, \H297586e, 0)>>,
    <<Float(-1, \H1ab770d, \Hb3afc19, -1), Float(-1, \H11aaf05, \Hc48a5c0, 0)>>,
    <<Float(-1, \H1aa5748, \Hf4e072a, -1), Float(-1, \H1197077, \Haf1a479, 0)>>,
    <<Float(-1, \H1a9243e, \Hc92743e, -1), Float(-1, \H1181e45, \H58114c0, 0)>>,
    <<Float(-1, \H15f0c76, \Hd1e2091, -1), Float(-1, \H1a2d592, \Hbbdeba3, -1)>>,
    <<Float(-1, \H14f75d3, \H7014f12, -1), Float(-1, \H1897061, \H573e6a3, -1)>>,
    <<Float(-1, \H14015fc, \Hf3ff60a, -1), Float(-1, \H17187d8, \Hb299c5d, -1)>>,
    <<Float(-1, \H1389cae, \Hadcad3e, -1), Float(-1, \H1664805, \H33e6966, -1)>>,
    <<Float(-1, \H15f0c76, \Hd1e2091, -2), Float(-1, \H16d7adf, \H219b32d, -2)>>,
    <<Float(-1, \H14f75d3, \H7014f12, -2), Float(-1, \H15bffd8, \H15b5c42, -2)>>,
    <<Float(-1, \H14015fc, \Hf3ff60a, -2), Float(-1, \H14aef67, \H87e0e89, -2)>>,
    <<Float(1, 0, 0, 0), Float(1, 0, 0, 0)>>,
    <<Float(1, \H12a1220, \H752f767, -3), Float(1, \H12c3184, \Hba520fe, -3)>>,
    <<Float(1, \H1b2cce5, \H47faac8, -3), Float(1, \H1b973f6, \H6f77a20, -3)>>,
    <<Float(1, \H1b74bf8, \H4337e81, -3), Float(1, \H1be2917, \H744ad5c, -3)>>,
    <<Float(1, \H1bc1820, \Hf21ca34, -3), Float(1, \H1c33032, \H8af5efe, -3)>>,
    <<Float(1, \H12a1220, \H752f767, -2), Float(1, \H132c8e9, \H60a899f, -2)>>,
    <<Float(1, \H1b2cce5, \H47faac8, -2), Float(1, \H1cef6b8, \H5b2f2eb, -2)>>,
    <<Float(1, \H1b74bf8, \H4337e81, -2), Float(1, \H1d463d8, \Hff00612, -2)>>,
    <<Float(1, \H1bc1820, \Hf21ca34, -2), Float(1, \H1da342b, \H66aec8f, -2)>>,
    <<Float(1, \H1bf1b30, \Hafc731a, -2), Float(1, \H1dddddd, \Hddddddd, -2)>>,
    <<Float(1, \H101bc49, \H8c96666, -1), Float(1, \H119f6ea, \H68640dc, -1)>>,
    <<Float(1, \H102dc0e, \H4b65b54, -1), Float(1, \H11b6e6a, \H0f50cba, -1)>>,
    <<Float(1, \H123eafa, \Hc14933e, -1), Float(1, \H148492a, \H0ad70a7, -1)>>,
    <<Float(1, \H1262a84, \H3ee7d1a, -1), Float(1, \H14b779c, \Habf2930, -1)>>,
    <<Float(1, \H14619ab, \Hf5fc016, -1), Float(1, \H17ac1b2, \H4652a90, -1)>>,
    <<Float(1, \H14978fa, \H3269ee1, -1), Float(1, \H1800000, \H0000000, -1)>>,
    <<Float(1, \H14d1218, \Hb5957a7, -1), Float(1, \H185a6e6, \H1149ced, -1)>>,
    <<Float(1, \H168a40b, \H9cbd682, -1), Float(1, \H1b318ac, \Hd136f50, -1)>>,
    <<Float(1, \H1706f5d, \H4da3f41, -1), Float(1, \H1c0b23b, \Hef2231b, -1)>>,
    <<Float(1, \H1781f48, \H8baebc5, -1), Float(1, \H1ce782f, \H9a4debb, -1)>>,
    <<Float(1, \H1fdad1b, \Hd755236, -1), Float(1, \H18abe83, \H04de4af, 0)>>,
    <<Float(1, \H102bc36, \Hc41dd7a, 0), Float(1, \H198398d, \H10a12b6, 0)>>,
    <<Float(1, \H10c1523, \H82d7365, 0), Float(1, \H1bb67ae, \H8584ca8, 0)>>,
    <<Float(1, \H121053f, \H205d5f3, 0), Float(1, \H10e9de4, \Haa8bd81, 1)>>,
    <<Float(1, \H1260aac, \Hb79ff41, 0), Float(1, \H11cf1ff, \Hb739500, 1)>>,
    <<Float(1, \H12b15ac, \H825e870, 0), Float(1, \H12ca740, \H016302d, 1)>>,
    <<Float(1, \H168a40b, \H9cbd682, 0), Float(1, \H1877e51, \Hc2bf074, 2)>>,
    <<Float(1, \H1706f5d, \H4da3f41, 0), Float(1, \H1e385c1, \H16a7f77, 2)>>,
    <<Float(1, \H1781f48, \H8baebc5, 0), Float(1, \H139f901, \H0da882c, 3)>>,
    <<Float(1, \H18de64f, \Hab6356f, 0), Float(1, \H1e4c7e1, \H3568a7f, 5)>>,
    <<Float(1, \H195b1a1, \H5c49e2e, 0), Float(-1, \H11ed0c0, \H6f467c8, 6)>>,
    <<Float(1, \H19efda8, \H45bcbdb, 0), Float(-1, \H13e10dd, \H957444f, 4)>>,
    <<Float(1, \H19f2a65, \Ha24b1f2, 0), Float(-1, \H139cbe3, \Ha8bc7c1, 4)>>,
    <<Float(1, \H1a05d6f, \Hce044df, 0), Float(-1, \H11f5228, \H02d9205, 4)>>,
    <<Float(1, \H1a758dc, \H560af11, 0), Float(-1, \H1811b66, \H179c478, 3)>>,
    <<Float(1, \H1afa24c, \Ha9f250c, 0), Float(-1, \H1145e75, \H8262419, 3)>>,
    <<Float(1, \H10c1523, \H82d7365, 1), Float(-1, \H1bb67ae, \H8584caf, 0)>>,
    <<Float(1, \H10e7b08, \Hb58e0e2, 1), Float(-1, \H1a8d255, \Hcb6a8cf, 0)>>,
    <<Float(1, \H1145385, \Hfa3af71, 1), Float(-1, \H1800000, \H0000003, 0)>>,
    <<Float(1, \H11a1776, \H68c30d4, 1), Float(-1, \H15cdfd9, \He5cdfdc, 0)>>,
    <<Float(1, \H14ccc27, \H15b0a3a, 1), Float(-1, \H13407ff, \H6b3a298, -1)>>,
    <<Float(1, \H14d18e9, \Ha09eef5, 1), Float(-1, \H1326669, \H9697fdf, -1)>>,
    <<Float(1, \H150e362, \H6f908ca, 1), Float(-1, \H11e28a3, \H71a3a37, -1)>>,
    <<Float(1, \H154bb58, \H0e95f0c, 1), Float(-1, \H10a4f1a, \Hb4385de, -1)>>,
    <<Float(1, \H18d733e, \He4e6222, 1), Float(-1, \H12b3fa4, \H0caf288, -5)>>,
    <<Float(1, \H18f5f39, \Hb468d43, 1), Float(-1, \H1604bad, \H38da435, -6)>>,
    <<Float(1, \H1921fb5, \H4442d18, 1), Float(-1, \H11a6263, \H3145c07, -53)>>,
    <<Float(1, \H1ad4c83, \H98c27c4, 1), Float(1, \H1b973f6, \H6f77a13, -3)>>,
    <<Float(1, \H1ad9474, \Hc876500, 1), Float(1, \H1be2917, \H744ad57, -3)>>,
    <<Float(1, \H1ade137, \H53649ba, 1), Float(1, \H1c33032, \H8af5ee4, -3)>>,
    <<Float(1, \H1c87951, \Hed42270, 1), Float(1, \H1cef6b8, \H5b2f2df, -2)>>,
    <<Float(1, \H1c90934, \H4ca9ce8, 1), Float(1, \H1d463d8, \Hff0060e, -2)>>,
    <<Float(1, \H1c9a2b9, \H628665e, 1), Float(1, \H1da342b, \H66aec87, -2)>>
}

atan2(y, x) == (CHOOSE r \in atan2Table : r[1] = y /\ r[2] = x)[3]

tan(a) == (CHOOSE r \in tanTable : r[1] = a)[2]

(***************************************************************************)
(* Colours and rotate (lines 8-25)                                         *)
(***************************************************************************)

WHITE == <<255, 255, 255>>

YELLOW == <<255, 255, 0>>

RED == <<255, 0, 0>>

BLACK == <<0, 0, 0>>

\* Mutant of rotate: the rotation goes to the right.
rotate_Right(a, n) ==
    IF Len(a) = 0
    THEN a
    ELSE LET m == (-n) % Len(a)
         IN SubSeq(a, m + 1, Len(a)) \o SubSeq(a, 1, m)

rotate(a, n) ==
    IF Len(a) = 0
    THEN a
    ELSE LET m == n % Len(a)
         IN SubSeq(a, m + 1, Len(a)) \o SubSeq(a, 1, m)

(***************************************************************************)
(* Trisector geometry (lines 67-72, 129-198)                               *)
(***************************************************************************)

\* int(v + size / 2): size / 2 is a float, int() cuts towards zero.
IntOfHalves(n) == IF n >= 0 THEN n \div 2 ELSE -((-n) \div 2)

center(node) ==
    Point(IntOfHalves(2 * node.top_left.x + node.size),
          IntOfHalves(2 * node.top_left.y + node.size))

\* Mutant of corrected: the bearings are left as atan2 returned them.
corrected_NoWrap(angle_left, angle_right) == <<angle_left, angle_right>>

\* Lines 142-146: the bearings after the wrap correction, which adds a full
\* turn to the negative one when they have opposite signs and their
\* absolute values add up to more than pi.
corrected(angle_left, angle_right) ==
    IF /\ FLess(FMul(angle_left, angle_right), FZero)
       /\ FLess(pi, FAdd(FAbs(angle_left), FAbs(angle_right)))
    THEN IF FLess(angle_left, FZero)
         THEN <<FAdd(angle_left, FMul(FTwo, pi)), angle_right>>
         ELSE <<angle_left, FAdd(angle_right, FMul(FTwo, pi))>>
    ELSE <<angle_left, angle_right>>

\* Lines 141-150: the two trisector bearings of a vertex from the bearings
\* of its left and right neighbour, <<onethird, twothirds>>.
trisect(angle_left, angle_right) ==
    LET blend(c) == <<FAdd(FMul(TwoThirds, c[1]), FMul(OneThird, c[2])),
                      FAdd(FMul(OneThird, c[1]), FMul(TwoThirds, c[2]))>>
    IN blend(corrected(angle_left, angle_right))

\* The bearings atan2 returns in the model, and trisect of every pair of
\* them, computed once.
Bearings == {r[3] : r \in atan2Table}

trisectTable ==
    {<<al, ar, trisect(al, ar)>> : al \in Bearings, ar \in Bearings}

trisected(angle_left, angle_right) ==
    (CHOOSE r \in trisectTable :
        r[1] = angle_left /\ r[2] = angle_right)[3]

\* Lines 132-139: angle_left and angle_right of node i, the bearings of its
\* left and right neighbours.
angles(ns, i) ==
    LET node == ns[i]
        left == ns[((i - 2) % Len(ns)) + 1]
        right == ns[(i % Len(ns)) + 1]
    IN <<atan2(center(left).y - center(node).y,
               center(left).x - center(node).x),
         atan2(center(right).y - center(node).y,
               center(right).x - center(node).x)>>

\* Lines 131-150: thirds[i] for every node i.
thirds(ns) ==
    [i \in 1..Len(ns) |->
        trisected(angles(ns, i)[1], angles(ns, i)[2])]

\* What a call returns: a value, or the exception it raised.
Returned(v) == [raised |-> "", value |-> v]

Raised(exc) == [raised |-> exc, value |-> None]

\* The Point line 198 builds: Point(int(x), int(p1.y + tan1 * (x - p1.x)))
\* for x = (p1.y - p2.y + p2.x * tan2 - p1.x * tan1) / (tan2 - tan1), kept
\* as the values that determine it.
IntersectionPoint(p1, tan1, p2, tan2) ==
    [p1 |-> p1, tan1 |-> tan1, p2 |-> p2, tan2 |-> tan2]

\* Mutant of get_intersection: no test for equal bearings before the
\* division.
get_intersection_NoEqualityCheck(p1, angle1, p2, angle2) ==
    LET tan1 == tan(angle1)
        tan2 == tan(angle2)
    IN IF FIsZero(FAdd(tan2, FNeg(tan1)))
       THEN Raised("ZeroDivisionError")
       ELSE Returned(Some(IntersectionPoint(p1, tan1, p2, tan2)))

\* Mutant of get_intersection: the test of the bearings is inverted.
get_intersection_TestInverted(p1, angle1, p2, angle2) ==
    IF angle1 # angle2
    THEN Returned(None)
    ELSE Returned(Some(IntersectionPoint(p1, tan(angle1), p2, tan(angle2))))

\* get_intersection, lines 187-198. The division of line 196 raises
\* ZeroDivisionError when tan2 - tan1 is zero.
get_intersection(p1, angle1, p2, angle2) ==
    IF angle1 = angle2
    THEN Returned(None)
    ELSE LET tan1 == tan(angle1)
             tan2 == tan(angle2)
         IN IF FIsZero(FAdd(tan2, FNeg(tan1)))
            THEN Raised("ZeroDivisionError")
            ELSE Returned(Some(IntersectionPoint(p1, tan1, p2, tan2)))

\* Lines 152-163: the three calls of get_intersection.
intersections_maybe(ns) ==
    LET inters(th) ==
            [i \in 1..Len(ns) |->
                LET next_i == (i % 3) + 1
                IN get_intersection(center(ns[i]), th[i][2],
                                    center(ns[next_i]), th[next_i][1])]
    IN inters(thirds(ns))

Line(color, start, end) ==
    [op |-> "line", color |-> color, start |-> start, end |-> end]

Polygon(color, points, width) ==
    [op |-> "polygon", color |-> color, points |-> points, width |-> width]

Rect(color, rect, width) ==
    [op |-> "rect", color |-> color, rect |-> rect, width |-> width]

Fill(color) == [op |-> "fill", color |-> color]

\* Mutant of Polygons: a corner polygon is node i with the two
\* intersections next to it.
Polygons_CornerAtVertex(ns, intersections) ==
    LET inner == <<Polygon(YELLOW, intersections, 0),
                   Polygon(BLACK, intersections, 1)>>
        rot == rotate(intersections, 2)
        corner(i) ==
            LET points == <<center(ns[i]), intersections[i], rot[i]>>
            IN <<Polygon(RED, points, 0), Polygon(BLACK, points, 1)>>
    IN inner \o corner(1) \o corner(2) \o corner(3)

\* Lines 165-184: the polygons drawn from the three intersections.
Polygons(ns, intersections) ==
    LET inner == <<Polygon(YELLOW, intersections, 0),
                   Polygon(BLACK, intersections, 1)>>
        rot == rotate(ns, 1)
        corner(i) ==
            LET points == <<center(ns[i]), intersections[i], center(rot[i])>>
            IN <<Polygon(RED, points, 0), Polygon(BLACK, points, 1)>>
    IN inner \o corner(1) \o corner(2) \o corner(3)

\* Mutant of draw_trisectors: the polygons are drawn whether or not every
\* intersection is present.
draw_trisectors_Ungated(ns) ==
    LET polygons(im) ==
            IF \E i \in 1..Len(im) : im[i].raised # ""
            THEN [prims |-> <<>>,
                  raised |-> im[CHOOSE i \in 1..Len(im) :
                                  /\ im[i].raised # ""
                                  /\ \A j \in 1..(i - 1) :
                                         im[j].raised = ""].raised]
            ELSE [prims |-> Polygons(ns, [i \in 1..Len(im) |-> im[i].value]),
                  raised |-> ""]
    IN polygons(intersections_maybe(ns))

\* Triangle.draw_trisectors: what it draws, and the exception it raised.
draw_trisectors(ns) ==
    LET polygons(im) ==
            IF \E i \in 1..Len(im) : im[i].raised # ""
            THEN [prims |-> <<>>,
                  raised |-> im[CHOOSE i \in 1..Len(im) :
                                  /\ im[i].raised # ""
                                  /\ \A j \in 1..(i - 1) :
                                         im[j].raised = ""].raised]
            ELSE IF \A i \in 1..Len(im) : im[i].value # None
            THEN [prims |-> Polygons(ns, [i \in 1..Len(im) |->
                                              im[i].value[1]]),
                  raised |-> ""]
            ELSE [prims |-> <<>>, raised |-> ""]
    IN polygons(intersections_maybe(ns))

\* Node.draw, lines 91-94
NodeDraw(node) ==
    Rect(BLACK, get_rect(node), IF node.grab_offset = None THEN 1 ELSE 0)

\* Mutant of TriangleDraw: the node glyphs are drawn before the polygons.
TriangleDraw_NodesFirst(ns) ==
    LET rot == rotate(ns, 1)
        edges == [i \in 1..Len(ns) |->
                    Line(BLACK, center(ns[i]), center(rot[i]))]
        after(tri) ==
            IF tri.raised # ""
            THEN [prims |-> edges, raised |-> tri.raised]
            ELSE [prims |-> edges \o [i \in 1..Len(ns) |-> NodeDraw(ns[i])]
                              \o tri.prims,
                  raised |-> ""]
    IN after(draw_trisectors(ns))

\* Triangle.draw, lines 115-127
TriangleDraw(ns) ==
    LET rot == rotate(ns, 1)
        edges == [i \in 1..Len(ns) |->
                    Line(BLACK, center(ns[i]), center(rot[i]))]
        after(tri) ==
            IF tri.raised # ""
            THEN [prims |-> edges, raised |-> tri.raised]
            ELSE [prims |-> edges \o tri.prims
                              \o [i \in 1..Len(ns) |-> NodeDraw(ns[i])],
                  raised |-> ""]
    IN after(draw_trisectors(ns))

\* App.draw, lines 216-218
AppDraw(ns) ==
    LET after(t) == [prims |-> <<Fill(WHITE)>> \o t.prims, raised |-> t.raised]
    IN after(TriangleDraw(ns))

(***************************************************************************)
(* State                                                                   *)
(***************************************************************************)

VARIABLES
    nodes,      \* Triangle.nodes: the three Node objects, in scene order
    pc,         \* where main's loop stands: "poll", "events", "draw", "quit"
    pending,    \* the events of this tick's pygame.event.get() not yet handled
    drawList,   \* what this tick's App.draw has drawn, in order
    last,       \* history: the last call made on the triangle
    drag        \* history: per node, how it came to its grab state

vars == <<nodes, pc, pending, drawList, last, drag>>

\* Sequences over S of length at most n.
SeqUpTo(S, n) == UNION {[1..k -> S] : k \in 0..n}

\* drag[i] of a node at rest: where it has been since it was last released.
Rest(t) == [grabbed |-> FALSE, at |-> t]

\* drag[i] of a held node: the pointer-down that grabbed it (position p,
\* the node's top_left t0 then) and the pointer position of the last
\* update since.
Held(p, t0, q) == [grabbed |-> TRUE, p |-> p, t0 |-> t0, q |-> q]

Init ==
    /\ nodes = TriangleInit
    /\ pc = "poll"
    /\ pending = <<>>
    /\ drawList = <<>>
    /\ last = [op |-> "init", event |-> Event("init", None), q |-> None,
               before |-> TriangleInit, rets |-> <<>>]
    /\ drag = [i \in 1..3 |-> Rest(TriangleInit[i].top_left)]

\* App.update, line 206: pygame.event.get() returns the pending events.
Poll ==
    /\ pc = "poll"
    /\ pending' \in SeqUpTo(Events, MaxPending)
    /\ pc' = "events"
    /\ drawList' = <<>>
    /\ UNCHANGED <<nodes, last, drag>>

\* App.update, lines 207-208: a QUIT event ends the loop.
Quit ==
    /\ pc = "events"
    /\ pending # <<>>
    /\ Head(pending).type = "QUIT"
    /\ pc' = "quit"
    /\ pending' = Tail(pending)
    /\ UNCHANGED <<nodes, drawList, last, drag>>

\* The hit-box of a node: the square [top_left, top_left + size).
InBox(node, p) ==
    /\ node.top_left.x <= p.x /\ p.x < node.top_left.x + node.size
    /\ node.top_left.y <= p.y /\ p.y < node.top_left.y + node.size

\* drag after an event went to the first n nodes: a pointer-down inside a
\* node's box starts a drag of it, a pointer-up ends one.
DragAfterEvent(before, after, n, event, d) ==
    [i \in 1..3 |->
        IF i > n THEN d[i]
        ELSE IF event.type = "MOUSEBUTTONDOWN" /\ InBox(before[i], event.pos[1])
        THEN Held(event.pos[1], before[i].top_left, None)
        ELSE IF event.type = "MOUSEBUTTONUP"
        THEN Rest(after[i].top_left)
        ELSE d[i]]

\* App.update, line 210: the next event goes to Triangle.handle_event.
HandleEvent ==
    /\ pc = "events"
    /\ pending # <<>>
    /\ Head(pending).type # "QUIT"
    /\ LET event == Head(pending)
           r == TriangleHandleEvent(nodes, event)
       IN /\ nodes' = r.nodes
          /\ last' = [op |-> "handle_event", event |-> event, q |-> None,
                      before |-> nodes, rets |-> r.rets]
          /\ drag' = DragAfterEvent(nodes, r.nodes, Len(r.rets), event, drag)
    /\ pending' = Tail(pending)
    /\ UNCHANGED <<pc, drawList>>

\* Mutant of Update: Triangle.update runs while events are still pending.
Update_BeforeEvents ==
    /\ pc = "events"
    /\ \E q \in MousePos :
          /\ nodes' = TriangleUpdate(nodes, q)
          /\ last' = [op |-> "update", event |-> Event("none", None),
                      q |-> Some(q), before |-> nodes, rets |-> <<>>]
          /\ drag' = [i \in 1..3 |->
                        IF drag[i].grabbed
                        THEN [drag[i] EXCEPT !.q = Some(q)]
                        ELSE drag[i]]
    /\ pc' = "draw"
    /\ UNCHANGED <<pending, drawList>>

\* App.update, line 212: Triangle.update once the events are handled.
Update ==
    /\ pc = "events"
    /\ pending = <<>>
    /\ \E q \in MousePos :
          /\ nodes' = TriangleUpdate(nodes, q)
          /\ last' = [op |-> "update", event |-> Event("none", None),
                      q |-> Some(q), before |-> nodes, rets |-> <<>>]
          /\ drag' = [i \in 1..3 |->
                        IF drag[i].grabbed
                        THEN [drag[i] EXCEPT !.q = Some(q)]
                        ELSE drag[i]]
    /\ pc' = "draw"
    /\ UNCHANGED <<pending, drawList>>

\* main, lines 231-233: App.draw, then the next tick; an exception that
\* App.draw raises ends the program.
Draw ==
    /\ pc = "draw"
    /\ \E d \in {AppDraw(nodes)} :
          /\ drawList' = d.prims
          /\ pc' = IF d.raised # "" THEN "raised" ELSE "poll"
    /\ UNCHANGED <<nodes, pending, last, drag>>

Next == Poll \/ Quit \/ HandleEvent \/ Update \/ Draw

Spec == Init /\ [][Next]_vars

\* The same loop with up to MaxTickPending events per tick, drawn from a
\* pointer-down and a pointer-up on node 0's initial box and QUIT.
MaxTickPending == 2

TickEvents ==
    {Event("MOUSEBUTTONDOWN", Some(Point(300, 100))),
     Event("MOUSEBUTTONUP", Some(Point(300, 100))),
     Event("QUIT", None)}

\* App.update, line 206, with the events of TickEvents.
PollTick ==
    /\ pc = "poll"
    /\ pending' \in SeqUpTo(TickEvents, MaxTickPending)
    /\ pc' = "events"
    /\ drawList' = <<>>
    /\ UNCHANGED <<nodes, last, drag>>

NextTick == PollTick \/ Quit \/ HandleEvent \/ Update \/ Draw

SpecTick == Init /\ [][NextTick]_vars

\* rotate on its own: calls with lists of up to MaxLen of three values and
\* shifts from -MaxShift to MaxShift; last records the call and its result.
MaxLen == 3

MaxShift == 4

RotateInit == Init

Rotate ==
    /\ \E a \in SeqUpTo({"a", "b", "c"}, MaxLen), n \in (-MaxShift)..MaxShift :
          last' = [op |-> "rotate", a |-> a, n |-> n, out |-> rotate(a, n)]
    /\ UNCHANGED <<nodes, pc, pending, drawList, drag>>

SpecRotate == RotateInit /\ [][Rotate]_vars

(***************************************************************************)
(* Properties                                                              *)
(***************************************************************************)

\* The last call was Triangle.handle_event with an event of this type.
Handled(type) == last.op = "handle_event" /\ last.event.type = type

\* The nodes Node.handle_event was called on by the last Triangle.handle_event.
CalledNodes == 1..Len(last.rets)

Grabbed(node) == node.grab_offset # None

\* C1: a pointer-down at p inside the hit-box of a node that receives it
\* leaves the node Grabbed with grab_offset = p - top_left, does not move
\* it, and returns True.
C1_DownInsideGrabs ==
    Handled("MOUSEBUTTONDOWN") =>
        \A i \in CalledNodes :
            LET p == last.event.pos[1]
                t == last.before[i].top_left
            IN InBox(last.before[i], p) =>
                  /\ nodes[i].grab_offset = Some(Point(p.x - t.x, p.y - t.y))
                  /\ nodes[i].top_left = t
                  /\ last.rets[i] = TRUE

\* A Free node was grabbed by a pointer-down away from its top-left corner.
C1_Witness ==
    /\ Handled("MOUSEBUTTONDOWN")
    /\ \E i \in CalledNodes :
          /\ InBox(last.before[i], last.event.pos[1])
          /\ ~Grabbed(last.before[i])
          /\ last.event.pos[1] # last.before[i].top_left
          /\ Grabbed(nodes[i])

\* C2: a pointer-up leaves every node that receives it Free and where it
\* was, wherever the pointer-up is and whether the node was Grabbed or Free.
C2_UpReleases ==
    Handled("MOUSEBUTTONUP") =>
        \A i \in CalledNodes :
            /\ nodes[i].grab_offset = None
            /\ nodes[i].top_left = last.before[i].top_left

\* A pointer-up outside the box of a Grabbed node released it, and the same
\* pointer-up went to a node that was Free.
C2_Witness ==
    /\ Handled("MOUSEBUTTONUP")
    /\ \E i \in CalledNodes :
          /\ Grabbed(last.before[i])
          /\ ~InBox(last.before[i], last.event.pos[1])
          /\ ~Grabbed(nodes[i])
    /\ \E j \in CalledNodes : ~Grabbed(last.before[j])

\* C3 as stated: Node.handle_event returns True for a pointer-up.
C3_UpConsumed ==
    Handled("MOUSEBUTTONUP") => \A i \in CalledNodes : last.rets[i] = TRUE

\* C3, amended: Node.handle_event returns False for a pointer-up, and True
\* for a pointer-down inside the node's hit-box.
C3_UpNotConsumed ==
    /\ Handled("MOUSEBUTTONUP") => \A i \in CalledNodes : last.rets[i] = FALSE
    /\ Handled("MOUSEBUTTONDOWN") =>
          \A i \in CalledNodes :
              InBox(last.before[i], last.event.pos[1]) => last.rets[i] = TRUE

\* A pointer-up released a Grabbed node and was not consumed by it.
C3_Witness ==
    /\ Handled("MOUSEBUTTONUP")
    /\ \E i \in CalledNodes :
          Grabbed(last.before[i]) /\ ~Grabbed(nodes[i]) /\ ~last.rets[i]

\* C4: Triangle.update with the pointer at q moves every Grabbed node to
\* q - grab_offset, leaves every Free node where it was, and changes no
\* node's grab_offset.
C4_UpdateMovesGrabbed ==
    last.op = "update" =>
        \A i \in 1..3 :
            LET b == last.before[i]
                q == last.q[1]
            IN /\ Grabbed(b) =>
                     nodes[i].top_left = Point(q.x - b.grab_offset[1].x,
                                               q.y - b.grab_offset[1].y)
               /\ ~Grabbed(b) => nodes[i].top_left = b.top_left
               /\ nodes[i].grab_offset = b.grab_offset

\* An update moved a node Grabbed away from its corner while another node
\* was Free.
C4_Witness ==
    /\ last.op = "update"
    /\ \E i \in 1..3 :
          /\ Grabbed(last.before[i])
          /\ last.before[i].grab_offset[1] # Point(0, 0)
          /\ nodes[i].top_left # last.before[i].top_left
    /\ \E j \in 1..3 : ~Grabbed(last.before[j])

\* C5: a pointer-down outside a node's hit-box, and an event that is
\* neither a pointer-down nor a pointer-up, is not consumed by the node
\* and leaves it as it was, Grabbed or not.
C5_MissOrOtherIgnored ==
    last.op = "handle_event" =>
        \A i \in CalledNodes :
            (\/ /\ last.event.type = "MOUSEBUTTONDOWN"
                /\ ~InBox(last.before[i], last.event.pos[1])
             \/ last.event.type \notin {"MOUSEBUTTONDOWN", "MOUSEBUTTONUP"})
            => /\ last.rets[i] = FALSE
               /\ nodes[i] = last.before[i]

\* A Grabbed node received a pointer-down on the pixel column just right of
\* its box, at a height inside it.
C5_Witness ==
    /\ Handled("MOUSEBUTTONDOWN")
    /\ \E i \in CalledNodes :
          LET p == last.event.pos[1]
              b == last.before[i]
          IN /\ Grabbed(b)
             /\ p.x = b.top_left.x + b.size
             /\ b.top_left.y <= p.y /\ p.y < b.top_left.y + b.size

\* The nodes whose hit-box held the last event's position.
HitNodes == {i \in 1..3 : InBox(last.before[i], last.event.pos[1])}

FirstHit == CHOOSE k \in HitNodes : \A j \in HitNodes : k <= j

\* C6: a pointer-down inside the hit-boxes of two or more nodes grabs the
\* first of them in scene order and nothing else: the nodes after it do
\* not receive the event, and every other node stays as it was.
C6_FirstMatchWins ==
    (Handled("MOUSEBUTTONDOWN") /\ Cardinality(HitNodes) >= 2) =>
        LET p == last.event.pos[1]
            t == last.before[FirstHit].top_left
        IN /\ nodes[FirstHit].grab_offset = Some(Point(p.x - t.x, p.y - t.y))
           /\ Len(last.rets) = FirstHit
           /\ \A j \in 1..3 : j # FirstHit => nodes[j] = last.before[j]

\* A pointer-down fell inside two boxes that overlap without coinciding,
\* and the later of the two nodes was Free and stayed Free.
C6_Witness ==
    /\ Handled("MOUSEBUTTONDOWN")
    /\ \E j \in HitNodes :
          /\ j # FirstHit
          /\ last.before[j].top_left # last.before[FirstHit].top_left
          /\ ~Grabbed(last.before[j])
          /\ ~Grabbed(nodes[j])
          /\ Grabbed(nodes[FirstHit])

\* C7: a node grabbed by a pointer-down at p when its top_left was t0 is at
\* t0 until the first update and at q - (p - t0) after an update with the
\* pointer at q; a node released by a pointer-up is Free and stays where it
\* was released, whatever updates follow, until a pointer-down hits it.
C7_DragLifecycle ==
    \A i \in 1..3 :
        IF drag[i].grabbed
        THEN /\ Grabbed(nodes[i])
             /\ nodes[i].top_left =
                   IF drag[i].q = None
                   THEN drag[i].t0
                   ELSE Point(drag[i].q[1].x - (drag[i].p.x - drag[i].t0.x),
                              drag[i].q[1].y - (drag[i].p.y - drag[i].t0.y))
        ELSE /\ ~Grabbed(nodes[i])
             /\ nodes[i].top_left = drag[i].at

\* After an update, one node is held away from where it was grabbed, by a
\* pointer-down off its corner, and another rests where it was released
\* after a drag.
C7_Witness ==
    /\ last.op = "update"
    /\ \E i \in 1..3 :
          /\ drag[i].grabbed
          /\ drag[i].q # None
          /\ drag[i].p # drag[i].t0
          /\ nodes[i].top_left # drag[i].t0
    /\ \E j \in 1..3 :
          /\ ~drag[j].grabbed
          /\ drag[j].at # TriangleInit[j].top_left

\* This tick's App.draw has run: drawList is what it drew from nodes.
Drawn == drawList # <<>>

\* How many primitives of the draw list satisfy Is.
Count(Is(_)) == Cardinality({k \in DOMAIN drawList : Is(drawList[k])})

IsLine(d) == d.op = "line"

IsRect(d) == d.op = "rect"

IsPolygon(d) == d.op = "polygon"

IsInnerFill(d) == d.op = "polygon" /\ d.color = YELLOW /\ d.width = 0

IsCornerFill(d) == d.op = "polygon" /\ d.color = RED /\ d.width = 0

Present(r) == r.raised = "" /\ r.value # None

Absent(r) == r.raised = "" /\ r.value = None

\* C8: the draw list holds the Inner Triangle and the three Corner
\* Triangles exactly when all three intersections are present and holds no
\* polygon otherwise; when an intersection is absent it still holds the 3
\* outer edges and the 3 node glyphs.
C8_PolygonGating ==
    Drawn =>
        LET im == intersections_maybe(nodes)
        IN /\ (\A i \in 1..3 : Present(im[i]))
                 <=> (Count(IsInnerFill) = 1 /\ Count(IsCornerFill) = 3)
           /\ ~(\A i \in 1..3 : Present(im[i])) => Count(IsPolygon) = 0
           /\ (\E i \in 1..3 : Absent(im[i]))
                 => (Count(IsLine) = 3 /\ Count(IsRect) = 3)

\* A scene with one intersection absent and another present was drawn:
\* edges and glyphs, no polygon.
C8_Witness ==
    /\ Drawn
    /\ \E i, j \in 1..3 :
          /\ Absent(intersections_maybe(nodes)[i])
          /\ Present(intersections_maybe(nodes)[j])
    /\ Count(IsPolygon) = 0
    /\ Count(IsRect) = 3

\* Two of the vertex centers are the same point.
Coincident ==
    \E i, j \in 1..3 : i # j /\ center(nodes[i]) = center(nodes[j])

\* C9: drawing a scene with coincident vertex centers raises nothing, finds
\* at least one intersection absent, and draws the 3 outer edges and the 3
\* node glyphs.
C9_CoincidentVertices ==
    (Drawn /\ Coincident) =>
        LET im == intersections_maybe(nodes)
        IN /\ pc # "raised"
           /\ \A i \in 1..3 : im[i].raised = ""
           /\ \E i \in 1..3 : Absent(im[i])
           /\ Count(IsLine) = 3
           /\ Count(IsRect) = 3

\* A scene with exactly two coincident centers was drawn.
C9_Witness ==
    /\ Drawn
    /\ Coincident
    /\ \E i, j \in 1..3 : center(nodes[i]) # center(nodes[j])

\* C10 as stated: whenever the tangents of the two bearings handed to
\* get_intersection are equal the result is absent, and the division is
\* never made with a zero divisor (no ZeroDivisionError), for the calls the
\* draw of any reachable scene makes.
C10_EqualSlopesAbsent ==
    Drawn =>
        \A i \in 1..3 :
            LET th == thirds(nodes)
                next_i == (i % 3) + 1
                r == get_intersection(center(nodes[i]), th[i][2],
                                      center(nodes[next_i]), th[next_i][1])
            IN /\ tan(th[i][2]) = tan(th[next_i][1]) => r = Returned(None)
               /\ r.raised # "ZeroDivisionError"

\* Twice the signed area of the triangle of the three vertex centers:
\* zero when they are collinear (or coincide), its sign the winding.
Cross ==
    LET a == center(nodes[1])
        b == center(nodes[2])
        c == center(nodes[3])
    IN (b.x - a.x) * (c.y - a.y) - (b.y - a.y) * (c.x - a.x)

\* C11: when the three vertex centers are distinct and not collinear, in
\* either winding, the draw finds all three intersections present: none is
\* absent and no call of get_intersection raises.
C11_NonDegeneratePresent ==
    (Drawn /\ Cross # 0) =>
        /\ pc # "raised"
        /\ \A i \in 1..3 : Present(intersections_maybe(nodes)[i])

\* A triangle wound the other way round than the initial one was drawn
\* with all three intersections present.
C11_Witness ==
    /\ Drawn
    /\ Cross < 0
    /\ \A i \in 1..3 : Present(intersections_maybe(nodes)[i])
    /\ Count(IsPolygon) = 8

\* a - b
FSub(a, b) == FAdd(a, FNeg(b))

\* Whether the double c lies strictly between the doubles a and b.
FBetween(a, c, b) ==
    \/ FLess(a, c) /\ FLess(c, b)
    \/ FLess(b, c) /\ FLess(c, a)

\* Which way the turn from the left neighbour of node i to its right
\* neighbour through the interior of the triangle goes: the sign of the
\* cross product of the two edges at node i.
Turn(i) ==
    LET n == center(nodes[i])
        l == center(nodes[((i - 2) % 3) + 1])
        r == center(nodes[(i % 3) + 1])
    IN (l.x - n.x) * (r.y - n.y) - (l.y - n.y) * (r.x - n.x)

\* C12 at node i with corrected bearings c and trisector bearings t: the
\* corrected bearings differ by less than half a turn and in the direction
\* of the interior turn, both trisectors lie strictly between them, and
\* oneThird is the one nearer the left neighbour.
WrapCorrect(i, c, t) ==
    /\ FLess(FAbs(FSub(c[2], c[1])), pi)
    /\ (Turn(i) > 0) = FLess(c[1], c[2])
    /\ FBetween(c[1], t[1], c[2])
    /\ FBetween(c[1], t[2], c[2])
    /\ FLess(FAbs(FSub(t[1], c[1])), FAbs(FSub(t[2], c[1])))

\* C12: at every vertex of a non-degenerate triangle the nodes can form, in
\* either winding, the bearings after the wrap correction differ by the
\* interior angle (less than half a turn, turning through the interior),
\* and oneThird and twoThirds lie strictly between them, oneThird nearer
\* the left neighbour.
C12_WrapCorrection ==
    Cross # 0 =>
        \A i \in 1..3 :
            WrapCorrect(i, corrected(angles(nodes, i)[1], angles(nodes, i)[2]),
                        thirds(nodes)[i])

\* A vertex whose bearings the correction changed, in a drawn triangle
\* wound the other way round than the initial one.
C12_Witness ==
    /\ Drawn
    /\ Cross < 0
    /\ \E i \in 1..3 :
          corrected(angles(nodes, i)[1], angles(nodes, i)[2])
              # <<angles(nodes, i)[1], angles(nodes, i)[2]>>

\* The intersection get_intersection returned for node i and the node
\* after it, in a scene where it is present.
Inter(i) == intersections_maybe(nodes)[i].value[1]

\* Whether pt is one of the points of the polygon d.
HasPoint(d, pt) == \E k \in DOMAIN d.points : d.points[k] = pt

\* C13 as stated: every Corner Triangle of the draw list is one vertex
\* center with the two intersections adjacent to that vertex, the one on
\* the edge to the next node and the one on the edge from the node before.
C13_CornerOneVertexTwoIntersections ==
    Drawn =>
        \A k \in DOMAIN drawList :
            IsCornerFill(drawList[k]) =>
                \E i \in 1..3 :
                    /\ Len(drawList[k].points) = 3
                    /\ HasPoint(drawList[k], center(nodes[i]))
                    /\ HasPoint(drawList[k], Inter(i))
                    /\ HasPoint(drawList[k], Inter(((i - 2) % 3) + 1))

\* C13, amended: the three Corner Triangles of the draw list are, for
\* i = 1, 2, 3 in this order, the center of node i, the intersection of
\* the trisectors next to the edge from node i to the node after it, and
\* the center of that next node: two vertex centers and one intersection.
C13_CornerTwoVerticesOneIntersection ==
    (Drawn /\ Count(IsCornerFill) > 0) =>
        LET fills == SelectSeq(drawList, IsCornerFill)
        IN /\ Len(fills) = 3
           /\ \A i \in 1..3 :
                 fills[i].points = <<center(nodes[i]), Inter(i),
                                     center(nodes[(i % 3) + 1])>>

\* Corner Triangles were drawn for a triangle the pointer has reshaped.
C13_Witness ==
    /\ Drawn
    /\ Count(IsCornerFill) = 3
    /\ nodes[1].top_left # TriangleInit[1].top_left
    /\ Cross # 0

\* What one step of the loop may do, by the place the loop stands at. With
\* events pending: the oldest one is dispatched (or, a QUIT, ends the
\* loop) and nothing is drawn. With none pending: the positions are
\* updated, and the draw comes next. At the draw: the scene is as the
\* update left it, it is drawn, and the next tick polls again.
TickStep ==
    /\ pc = "poll" => (pc' = "events" /\ nodes' = nodes /\ last' = last)
    /\ (pc = "events" /\ pending # <<>>) =>
          /\ pending' = Tail(pending)
          /\ drawList' = drawList
          /\ \/ Head(pending).type = "QUIT" /\ pc' = "quit" /\ nodes' = nodes
             \/ /\ Head(pending).type # "QUIT"
                /\ pc' = "events"
                /\ last'.op = "handle_event"
                /\ last'.event = Head(pending)
                /\ last'.before = nodes
    /\ (pc = "events" /\ pending = <<>>) =>
          /\ last'.op = "update"
          /\ last'.before = nodes
          /\ drawList' = drawList
          /\ pending' = pending
          /\ pc' = "draw"
    /\ pc = "draw" =>
          /\ last.op = "update"
          /\ pending = <<>>
          /\ nodes' = nodes
          /\ last' = last
          /\ drawList' # <<>>
          /\ pc' \in {"poll", "raised"}
    /\ pc \in {"quit", "raised"} => UNCHANGED vars

\* C14: within a tick the pending events are dispatched oldest first, then
\* the positions are updated, then the scene is drawn: no draw between a
\* dispatch and the tick's update, no dispatch after the update. (A QUIT
\* event ends the loop where it stands in the list.)
C14_TickOrder == [][TickStep]_vars

\* Mid-tick: of two events received, the pointer-down has been dispatched
\* and grabbed node 0, the pointer-up is still pending, nothing is drawn.
C14_Witness ==
    /\ pc = "events"
    /\ Len(pending) = 1
    /\ Head(pending).type = "MOUSEBUTTONUP"
    /\ last.op = "handle_event"
    /\ last.event.type = "MOUSEBUTTONDOWN"
    /\ nodes[1].grab_offset # None
    /\ drawList = <<>>

\* C15: rotate(a, n) is the cyclic left rotation of a by n: the result has
\* the length of a and, counting from 0, its element i is element
\* (i + n) mod len(a) of a, for every integer n; the empty list gives the
\* empty list.
C15_RotateLeft ==
    last.op = "rotate" =>
        /\ Len(last.out) = Len(last.a)
        /\ last.a = <<>> => last.out = <<>>
        /\ \A i \in 0..(Len(last.a) - 1) :
              last.out[i + 1] = last.a[((i + last.n) % Len(last.a)) + 1]
        /\ last.n = Len(last.a) => last.out = last.a

\* rotate([a, b, c], 1) returned [b, c, a].
C15_Witness ==
    /\ last.op = "rotate"
    /\ last.a = <<"a", "b", "c">>
    /\ last.n = 1
    /\ last.out = <<"b", "c", "a">>

\* The polygons of the draw list, in the order drawn.
DrawnPolygons == SelectSeq(drawList, IsPolygon)

\* Whether polygon number k of the draw list is a fill of the given colour
\* and polygon number k + 1 the black outline of the same points.
FillThenOutline(k, color) ==
    /\ DrawnPolygons[k].color = color
    /\ DrawnPolygons[k].width = 0
    /\ DrawnPolygons[k + 1].color = BLACK
    /\ DrawnPolygons[k + 1].width = 1
    /\ DrawnPolygons[k + 1].points = DrawnPolygons[k].points

\* C16: after App.draw has cleared the screen, the draw list of a tick
\* holds the 3 outer edges first, from each vertex center to the next in
\* cyclic order; then, when present, the Inner Triangle (fill, outline)
\* followed by the three Corner Triangles (each fill, outline); and the 3
\* node glyphs last, after every polygon, in every tick whose draw
\* returns.
C16_DrawOrder ==
    Drawn =>
        /\ drawList[1] = Fill(WHITE)
        /\ \A i \in 1..3 :
              drawList[i + 1] = Line(BLACK, center(nodes[i]),
                                     center(nodes[(i % 3) + 1]))
        /\ \A j, k \in DOMAIN drawList :
              /\ (IsLine(drawList[j]) /\ ~IsLine(drawList[k])) => (k = 1 \/ j < k)
              /\ (IsPolygon(drawList[j]) /\ IsRect(drawList[k])) => j < k
        /\ DrawnPolygons # <<>> =>
              /\ Len(DrawnPolygons) = 8
              /\ FillThenOutline(1, YELLOW)
              /\ \A c \in 1..3 : FillThenOutline(2 * c + 1, RED)
        /\ pc # "raised" =>
              \A i \in 1..3 :
                  drawList[Len(drawList) - 3 + i] = NodeDraw(nodes[i])

\* A tick drew edges, the eight polygons and then the glyphs, the first
\* glyph filled because node 0 is held.
C16_Witness ==
    /\ Drawn
    /\ Len(drawList) = 15
    /\ Len(DrawnPolygons) = 8
    /\ IsRect(drawList[13])
    /\ drawList[13].width = 0
    /\ IsPolygon(drawList[12])

\* How many of the three nodes are Grabbed.
GrabbedCount == Cardinality({i \in 1..3 : Grabbed(nodes[i])})

\* C17 as stated: in every reachable state at most one of the three nodes
\* is Grabbed.
C17_AtMostOneGrabbed == GrabbedCount <= 1

\* C18: after Triangle.handle_event has processed a pointer-up, no node is
\* Grabbed, whichever nodes were Grabbed before it.
C18_UpReleasesAll ==
    Handled("MOUSEBUTTONUP") => \A i \in 1..3 : ~Grabbed(nodes[i])

\* A pointer-up was processed when a node other than the first in scene
\* order was Grabbed, and left none Grabbed.
C18_Witness ==
    /\ Handled("MOUSEBUTTONUP")
    /\ \E i \in 2..3 : Grabbed(last.before[i])
    /\ \A i \in 1..3 : ~Grabbed(nodes[i])

\* C19: a Grabbed node's grab_offset lies in [0, size) in both coordinates,
\* in every reachable state, and right after an update the pointer is
\* inside the box of every Grabbed node.
C19_OffsetInsideBox ==
    \A i \in 1..3 :
        Grabbed(nodes[i]) =>
            /\ 0 <= nodes[i].grab_offset[1].x
            /\ nodes[i].grab_offset[1].x < nodes[i].size
            /\ 0 <= nodes[i].grab_offset[1].y
            /\ nodes[i].grab_offset[1].y < nodes[i].size
            /\ last.op = "update" => InBox(nodes[i], last.q[1])

\* A pointer-down hit a node that was already Grabbed by its corner and
\* grabbed it again, 15 right of and 7 below the corner.
C19_Witness ==
    /\ Handled("MOUSEBUTTONDOWN")
    /\ \E i \in 1..3 :
          /\ Grabbed(last.before[i])
          /\ last.before[i].grab_offset[1] = Point(0, 0)
          /\ nodes[i].grab_offset[1] = Point(15, 7)

====
